---- MODULE Spec2Model ----
(***************************************************************************)
(* The automated code-fix pipeline of the codemap backend:                 *)
(*   backend/app/services/code_fix_service.py  (CodeFixService)            *)
(*   backend/app/routers/agents.py             (code_fix_agent)            *)
(*   backend/app/main.py                       (exception handlers)        *)
(*                                                                         *)
(* Python str values that the code inspects or rewrites (source text,      *)
(* error messages, comments, patterns, replacements) are sequences of      *)
(* one-character strings, so that substring tests, split/join, lower() and *)
(* re.sub are computed character by character.  Labels that are only       *)
(* copied or compared for equality (error kinds, check names, exception    *)
(* names) are TLA+ strings.  Optional[T] is <<>> (None) or <<v>>.          *)
(***************************************************************************)
EXTENDS Integers, Sequences, FiniteSets, TLC

(* ------------------------------------------------------------------ *)
(* Bounds of the checked instance                                      *)
(* ------------------------------------------------------------------ *)

\* most lines a sampled source text is built from
MaxLines == 2

\* most errors in one direct call of the service
MaxErrors == 2

\* most entries of payload['errors'] in a request to the endpoint
MaxPayloadErrors == 1

\* random.randint(1, 1000) of create_pull_request is drawn from 1..MaxPrNumber
MaxPrNumber == 2

\* most errors in one direct call that samples every strategy and keyword
MaxStrategyErrors == 1

\* most fixes in one direct call of apply_fixes
MaxFixes == 2

\* requests of one user that are in flight together
MaxRequests == 3

(* ------------------------------------------------------------------ *)
(* Optional values                                                     *)
(* ------------------------------------------------------------------ *)

None == <<>>

Some(v) == <<v>>

(* ------------------------------------------------------------------ *)
(* Python str operations on character sequences                        *)
(* ------------------------------------------------------------------ *)

NL == "\n"

\* s[i:j] with 1-based i and exclusive j
Slice(s, i, j) == [k \in 1..(j - i) |-> s[i + k - 1]]

\* s.startswith(p, i-1)
StartsAt(s, p, i) ==
    /\ i + Len(p) - 1 <= Len(s)
    /\ \A k \in 1..Len(p) : s[i + k - 1] = p[k]

\* p in s
Contains(s, p) == \E i \in 1..(Len(s) + 1) : StartsAt(s, p, i)

UpperToLower ==
    [c \in {"A","B","C","D","E","F","G","H","I","J","K","L","M",
            "N","O","P","Q","R","S","T","U","V","W","X","Y","Z"} |->
        CASE c = "A" -> "a" [] c = "B" -> "b" [] c = "C" -> "c" [] c = "D" -> "d"
          [] c = "E" -> "e" [] c = "F" -> "f" [] c = "G" -> "g" [] c = "H" -> "h"
          [] c = "I" -> "i" [] c = "J" -> "j" [] c = "K" -> "k" [] c = "L" -> "l"
          [] c = "M" -> "m" [] c = "N" -> "n" [] c = "O" -> "o" [] c = "P" -> "p"
          [] c = "Q" -> "q" [] c = "R" -> "r" [] c = "S" -> "s" [] c = "T" -> "t"
          [] c = "U" -> "u" [] c = "V" -> "v" [] c = "W" -> "w" [] c = "X" -> "x"
          [] c = "Y" -> "y" [] c = "Z" -> "z"]

\* s.lower()
Lower(s) ==
    [k \in 1..Len(s) |-> IF s[k] \in DOMAIN UpperToLower THEN UpperToLower[s[k]] ELSE s[k]]

\* index of the first "\n" at or after i, or Len(s)+1
RECURSIVE NextNL(_, _)
NextNL(s, i) ==
    IF i > Len(s) THEN Len(s) + 1
    ELSE IF s[i] = NL THEN i
    ELSE NextNL(s, i + 1)

\* s.split('\n'): never empty, "" gives [""]
RECURSIVE SplitFrom(_, _)
SplitFrom(s, i) ==
    LET j == NextNL(s, i) IN
    IF j > Len(s) THEN << Slice(s, i, Len(s) + 1) >>
    ELSE << Slice(s, i, j) >> \o SplitFrom(s, j + 1)

Split(s) == SplitFrom(s, 1)

\* '\n'.join(lines)
RECURSIVE Join(_)
Join(lines) ==
    IF Len(lines) = 0 THEN <<>>
    ELSE IF Len(lines) = 1 THEN lines[1]
    ELSE lines[1] \o <<NL>> \o Join(Tail(lines))

\* ListInsert with the element put after the target index instead of at it
ListInsert_AfterTarget(lines, idx, x) ==
    LET n   == Len(lines)
        rel == IF idx < 0 THEN idx + n + 1 ELSE idx + 1
        at  == IF rel < 0 THEN 0 ELSE IF rel > n THEN n ELSE rel
    IN  SubSeq(lines, 1, at) \o <<x>> \o SubSeq(lines, at + 1, n)

\* list.insert(idx, x) with a 0-based idx: a negative idx counts from the
\* end, and an idx outside the list is clamped to its ends
ListInsert(lines, idx, x) ==
    LET n   == Len(lines)
        rel == IF idx < 0 THEN idx + n ELSE idx
        at  == IF rel < 0 THEN 0 ELSE IF rel > n THEN n ELSE rel
    IN  SubSeq(lines, 1, at) \o <<x>> \o SubSeq(lines, at + 1, n)

\* str(n) of a positive int
RECURSIVE IntToStr(_)
IntToStr(n) ==
    LET d == <<"0","1","2","3","4","5","6","7","8","9">>[(n % 10) + 1] IN
    IF n < 10 THEN <<d>> ELSE IntToStr(n \div 10) \o <<d>>

(* ------------------------------------------------------------------ *)
(* re.sub for the patterns of CodeFixService                           *)
(*                                                                     *)
(* A pattern is a sequence of elements: a literal character, \w+, \s*, *)
(* \s+, ^, $ or the back-reference \1.  In every pattern of the        *)
(* service a repeated class is followed by an element that no          *)
(* character of the class can match, so the greedy repetition takes    *)
(* the maximal run and no backtracking changes the result.             *)
(* ------------------------------------------------------------------ *)

WordChars ==
    {"a","b","c","d","e","f","g","h","i","j","k","l","m",
     "n","o","p","q","r","s","t","u","v","w","x","y","z",
     "A","B","C","D","E","F","G","H","I","J","K","L","M",
     "N","O","P","Q","R","S","T","U","V","W","X","Y","Z",
     "0","1","2","3","4","5","6","7","8","9","_"}

SpaceChars == {" ", "\t", "\n", "\r", "\f"}

\* pattern elements; g is the number of the capturing group the element
\* closes (0: none)
Lit(s)   == [k \in 1..Len(s) |-> [t |-> "lit", c |-> s[k], g |-> 0]]
Word(g)  == << [t |-> "w+", c |-> "", g |-> g] >>
Spaces0  == << [t |-> "s*", c |-> "", g |-> 0] >>
Spaces1  == << [t |-> "s+", c |-> "", g |-> 0] >>
Bol      == << [t |-> "^", c |-> "", g |-> 0] >>
Eol      == << [t |-> "$", c |-> "", g |-> 0] >>
BackRef1 == << [t |-> "\\1", c |-> "", g |-> 0] >>

\* re.compile(pat) raises re.error: of the malformed patterns these
\* elements can spell, the one is a back-reference \1 that no group 1
\* precedes ("invalid group reference 1")
re_error(pat) ==
    \E k \in 1..Len(pat) :
        /\ pat[k].t = "\\1"
        /\ \A j \in 1..(k - 1) : pat[j].g /= 1

\* length of the maximal run of characters of class cs starting at s[i]
RECURSIVE Run(_, _, _)
Run(s, i, cs) ==
    IF i <= Len(s) /\ s[i] \in cs THEN 1 + Run(s, i + 1, cs) ELSE 0

\* the exclusive end of the match of pat[k..] at s[i], or -1; g1 is the
\* text captured by group 1 so far
RECURSIVE MatchFrom(_, _, _, _, _)
MatchFrom(pat, k, s, i, g1) ==
    IF k > Len(pat) THEN i
    ELSE LET e == pat[k] IN
      CASE e.t = "lit" ->
             IF i <= Len(s) /\ s[i] = e.c
             THEN MatchFrom(pat, k + 1, s, i + 1, g1) ELSE -1
        [] e.t = "w+" ->
             LET n == Run(s, i, WordChars) IN
             IF n = 0 THEN -1
             ELSE MatchFrom(pat, k + 1, s, i + n,
                            IF e.g = 1 THEN Slice(s, i, i + n) ELSE g1)
        [] e.t = "s*" ->
             MatchFrom(pat, k + 1, s, i + Run(s, i, SpaceChars), g1)
        [] e.t = "s+" ->
             LET n == Run(s, i, SpaceChars) IN
             IF n = 0 THEN -1 ELSE MatchFrom(pat, k + 1, s, i + n, g1)
        [] e.t = "^" ->
             IF i = 1 THEN MatchFrom(pat, k + 1, s, i, g1) ELSE -1
        [] e.t = "$" ->
             IF i = Len(s) + 1 \/ (i = Len(s) /\ s[i] = NL)
             THEN MatchFrom(pat, k + 1, s, i, g1) ELSE -1
        [] e.t = "\\1" ->
             IF StartsAt(s, g1, i)
             THEN MatchFrom(pat, k + 1, s, i + Len(g1), g1) ELSE -1

\* re.sub(pat, repl, s) from position i on: every non-overlapping match,
\* leftmost first, is replaced by the template repl.  The templates of the
\* service hold no backslash, so Python inserts them literally ("$1" is
\* not a group reference in Python).
RECURSIVE SubFrom(_, _, _, _)
SubFrom(pat, repl, s, i) ==
    IF i > Len(s) THEN <<>>
    ELSE LET j == MatchFrom(pat, 1, s, i, <<>>) IN
         IF j > i THEN repl \o SubFrom(pat, repl, s, j)
         ELSE <<s[i]>> \o SubFrom(pat, repl, s, i + 1)

re_sub(pat, repl, s) == SubFrom(pat, repl, s, 1)

(* ------------------------------------------------------------------ *)
(* app/models.py                                                       *)
(* ------------------------------------------------------------------ *)

\* class FixAction(str, Enum)
REPLACE == "replace"
COMMENT == "comment"
SUGGEST == "suggest"

\* class Fix(BaseModel): every field but action is Optional, default None
Fix(action, pattern, replacement, explanation, line, comment, suggestion) ==
    [action |-> action, pattern |-> pattern, replacement |-> replacement,
     explanation |-> explanation, line |-> line, comment |-> comment,
     suggestion |-> suggestion]

\* class GeneratedFix(BaseModel)
GeneratedFix(error_id, type, description, fix, confidence, automated) ==
    [error_id |-> error_id, type |-> type, description |-> description,
     fix |-> fix, confidence |-> confidence, automated |-> automated]

(* ------------------------------------------------------------------ *)
(* CodeFixService: the fix strategies                                  *)
(* ------------------------------------------------------------------ *)

\* the pattern / replacement literals of the strategies
Pat_optional_chaining == Word(1) \o Spaces0 \o Lit(<<"&", "&">>) \o Spaces0 \o BackRef1 \o Lit(<<"(">>)
Rep_optional_chaining == <<"$", "1", "?", ".", "(", ")">>
Pat_export            == Bol \o Spaces0 \o Lit(<<"i", "n", "t", "e", "r", "f", "a", "c", "e">>) \o Spaces1 \o Word(0)
Rep_export            == <<"$", "1", "e", "x", "p", "o", "r", "t", " ", "$", "2">>
Pat_semicolon         == Word(1) \o Eol
Rep_semicolon         == <<"$", "1", ";">>
Pat_undefined         == Word(1) \o Lit(<<".">>) \o Word(2)
Rep_undefined         == <<"$", "1", "?", ".", "$", "2">>
Pat_null              == Word(1) \o Spaces0 \o Lit(<<"=", "=">>) \o Spaces0 \o Lit(<<"n", "u", "l", "l">>)
Rep_null              == <<"$", "1", " ", "=", "=", "=", " ", "n", "u", "l", "l">>
Pat_module            == Lit(<<"m", "o", "d", "u", "l", "e">>) \o Spaces0 \o Lit(<<"=">>)
Rep_module            == <<"m", "o", "d", "u", "l", "e", "D", "a", "t", "a", " ", "=">>
Pat_eval              == Lit(<<"e", "v", "a", "l", "(">>)
Rep_eval              == <<"/", "/", " ", "S", "E", "C", "U", "R", "I", "T", "Y", ":", " ", "e", "v", "a", "l", "(", ")", " ", "r", "e", "m", "o", "v", "e", "d", " ", "-", " ">>
Pat_innerHTML         == Lit(<<"i", "n", "n", "e", "r", "H", "T", "M", "L">>) \o Spaces0 \o Lit(<<"=">>)
Rep_innerHTML         == <<"t", "e", "x", "t", "C", "o", "n", "t", "e", "n", "t", " ", "=">>

ReplaceFix(pattern, replacement, explanation) ==
    Fix(REPLACE, Some(pattern), Some(replacement), Some(explanation), None, None, None)

CommentFix(line, comment, explanation) ==
    Fix(COMMENT, None, None, Some(explanation), Some(line), Some(comment), None)

SuggestFix(suggestion, explanation) ==
    Fix(SUGGEST, None, None, Some(explanation), None, None, Some(suggestion))

\* "<keyword>" in error.message.lower()
Mentions(error, keyword) == Contains(Lower(error.message), keyword)

\* _generate_style_fix whose fallback comment is marked "// NOTE:"
_generate_style_fix_NotePrefix(error, code) ==
    IF Mentions(error, <<"o", "p", "t", "i", "o", "n", "a", "l", " ", "c", "h", "a", "i", "n", "i", "n", "g">>)
    THEN ReplaceFix(Pat_optional_chaining, Rep_optional_chaining,
                    "Replace logical AND with optional chaining for safer property access")
    ELSE IF Mentions(error, <<"e", "x", "p", "o", "r", "t">>)
    THEN ReplaceFix(Pat_export, Rep_export, "Export interface for better reusability")
    ELSE IF Mentions(error, <<"s", "e", "m", "i", "c", "o", "l", "o", "n">>)
    THEN ReplaceFix(Pat_semicolon, Rep_semicolon, "Add missing semicolon")
    ELSE CommentFix(error.line, <<"/", "/", " ", "N", "O", "T", "E", ":", " ">> \o error.message,
                    "Added style comment for manual review")

_generate_style_fix(error, code) ==
    IF Mentions(error, <<"o", "p", "t", "i", "o", "n", "a", "l", " ", "c", "h", "a", "i", "n", "i", "n", "g">>)
    THEN ReplaceFix(Pat_optional_chaining, Rep_optional_chaining,
                    "Replace logical AND with optional chaining for safer property access")
    ELSE IF Mentions(error, <<"e", "x", "p", "o", "r", "t">>)
    THEN ReplaceFix(Pat_export, Rep_export, "Export interface for better reusability")
    ELSE IF Mentions(error, <<"s", "e", "m", "i", "c", "o", "l", "o", "n">>)
    THEN ReplaceFix(Pat_semicolon, Rep_semicolon, "Add missing semicolon")
    ELSE CommentFix(error.line, <<"/", "/", " ", "S", "T", "Y", "L", "E", ":", " ">> \o error.message,
                    "Added style comment for manual review")

\* _generate_bug_fix that tests "null" before "undefined"
_generate_bug_fix_NullFirst(error, code) ==
    IF Mentions(error, <<"n", "u", "l", "l">>)
    THEN ReplaceFix(Pat_null, Rep_null, "Use strict equality for null checks")
    ELSE IF Mentions(error, <<"u", "n", "d", "e", "f", "i", "n", "e", "d">>)
    THEN ReplaceFix(Pat_undefined, Rep_undefined,
                    "Add null checking to prevent undefined access")
    ELSE IF Mentions(error, <<"a", "s", "s", "i", "g", "n", "m", "e", "n", "t">>) /\ Mentions(error, <<"m", "o", "d", "u", "l", "e">>)
    THEN ReplaceFix(Pat_module, Rep_module,
                    "Rename variable to avoid module assignment conflict")
    ELSE CommentFix(error.line, <<"/", "/", " ", "T", "O", "D", "O", ":", " ", "F", "i", "x", " ", "b", "u", "g", " ", "-", " ">> \o error.message,
                    "Added TODO comment for manual review")

_generate_bug_fix(error, code) ==
    IF Mentions(error, <<"u", "n", "d", "e", "f", "i", "n", "e", "d">>)
    THEN ReplaceFix(Pat_undefined, Rep_undefined,
                    "Add null checking to prevent undefined access")
    ELSE IF Mentions(error, <<"n", "u", "l", "l">>)
    THEN ReplaceFix(Pat_null, Rep_null, "Use strict equality for null checks")
    ELSE IF Mentions(error, <<"a", "s", "s", "i", "g", "n", "m", "e", "n", "t">>) /\ Mentions(error, <<"m", "o", "d", "u", "l", "e">>)
    THEN ReplaceFix(Pat_module, Rep_module,
                    "Rename variable to avoid module assignment conflict")
    ELSE CommentFix(error.line, <<"/", "/", " ", "T", "O", "D", "O", ":", " ", "F", "i", "x", " ", "b", "u", "g", " ", "-", " ">> \o error.message,
                    "Added TODO comment for manual review")

_generate_security_fix(error, code) ==
    IF Mentions(error, <<"i", "n", "j", "e", "c", "t", "i", "o", "n">>)
    THEN ReplaceFix(Pat_eval, Rep_eval, "Removed dangerous eval() function")
    ELSE IF Mentions(error, <<"x", "s", "s">>)
    THEN ReplaceFix(Pat_innerHTML, Rep_innerHTML,
                    "Use textContent instead of innerHTML to prevent XSS")
    ELSE CommentFix(error.line, <<"/", "/", " ", "S", "E", "C", "U", "R", "I", "T", "Y", ":", " ">> \o error.message,
                    "Added security warning comment")

_generate_performance_fix(error, code) ==
    IF Mentions(error, <<"l", "o", "o", "p">>)
    THEN SuggestFix(<<"C", "o", "n", "s", "i", "d", "e", "r", " ", "u", "s", "i", "n", "g", " ", "A", "r", "r", "a", "y", ".", "m", "a", "p", "(", ")", " ", "o", "r", " ", "A", "r", "r", "a", "y", ".", "f", "i", "l", "t", "e", "r", "(", ")", " ", "f", "o", "r", " ", "b", "e", "t", "t", "e", "r", " ", "p", "e", "r", "f", "o", "r", "m", "a", "n", "c", "e">>,
                    "Functional array methods are often more performant")
    ELSE IF Mentions(error, <<"m", "e", "m", "o", "r", "y">>)
    THEN SuggestFix(<<"C", "o", "n", "s", "i", "d", "e", "r", " ", "i", "m", "p", "l", "e", "m", "e", "n", "t", "i", "n", "g", " ", "o", "b", "j", "e", "c", "t", " ", "p", "o", "o", "l", "i", "n", "g", " ", "o", "r", " ", "l", "a", "z", "y", " ", "l", "o", "a", "d", "i", "n", "g">>,
                    "Optimize memory usage")
    ELSE CommentFix(error.line, <<"/", "/", " ", "P", "E", "R", "F", "O", "R", "M", "A", "N", "C", "E", ":", " ">> \o error.message,
                    "Added performance comment for optimization")

_generate_generic_fix(error, code) ==
    CommentFix(error.line, <<"/", "/", " ", "R", "E", "V", "I", "E", "W", ":", " ">> \o error.message,
               "Added review comment for manual inspection")

\* strategy_fix without the performance branch
strategy_fix_NoPerformance(error, code) ==
    CASE error.type = "style"       -> _generate_style_fix(error, code)
      [] error.type = "bug"         -> _generate_bug_fix(error, code)
      [] error.type = "security"    -> _generate_security_fix(error, code)
      [] OTHER                      -> _generate_generic_fix(error, code)

\* the if / elif chain on error.type
strategy_fix(error, code) ==
    CASE error.type = "style"       -> _generate_style_fix(error, code)
      [] error.type = "bug"         -> _generate_bug_fix(error, code)
      [] error.type = "security"    -> _generate_security_fix(error, code)
      [] error.type = "performance" -> _generate_performance_fix(error, code)
      [] OTHER                      -> _generate_generic_fix(error, code)

\* confidence=0.85, in hundredths
Confidence == 85

\* error.type, error.line, error.message are attributes of a CodeError; an
\* entry of payload['errors'] is a plain dict, which has none of them
HasErrorAttributes(error) == error.repr = "CodeError"

\* generate_fixes raises AttributeError at the first entry it reads that is
\* no CodeError
generate_fixes_raises(code, errors) ==
    \E i \in 1..Len(errors) : ~HasErrorAttributes(errors[i])

\* the value generate_fixes returns when it does not raise: a Fix object
\* is always truthy, so every error appends one GeneratedFix
generate_fixes(code, errors) ==
    [i \in 1..Len(errors) |->
        GeneratedFix(errors[i].line, errors[i].type, errors[i].message,
                     strategy_fix(errors[i], code), Confidence, TRUE)]

(* ------------------------------------------------------------------ *)
(* CodeFixService.apply_fixes                                          *)
(* ------------------------------------------------------------------ *)

\* key=lambda f: f.fix.line or 0
SortKey(f) == IF f.fix.line = None \/ f.fix.line[1] = 0 THEN 0 ELSE f.fix.line[1]

\* sorted_fixes without reverse=True: ascending
RECURSIVE sorted_fixes_Ascending(_)
sorted_fixes_Ascending(fixes) ==
    IF fixes = <<>> THEN <<>>
    ELSE LET x    == Head(fixes)
             rest == sorted_fixes_Ascending(Tail(fixes))
         IN  SelectSeq(rest, LAMBDA f : SortKey(f) < SortKey(x))
             \o <<x>>
             \o SelectSeq(rest, LAMBDA f : SortKey(f) >= SortKey(x))

\* reversed(sorted(fixes, key=...)): descending, with the fixes of equal
\* key in the reverse of their input order
sorted_fixes_ReversedAscending(fixes) ==
    LET asc == sorted_fixes_Ascending(fixes) IN
    [i \in 1..Len(asc) |-> asc[Len(asc) + 1 - i]]

\* sorted(fixes, key=..., reverse=True): descending, and stable (fixes of
\* equal key keep their input order)
RECURSIVE sorted_fixes(_)
sorted_fixes(fixes) ==
    IF fixes = <<>> THEN <<>>
    ELSE LET x    == Head(fixes)
             rest == sorted_fixes(Tail(fixes))
         IN  SelectSeq(rest, LAMBDA f : SortKey(f) > SortKey(x))
             \o <<x>>
             \o SelectSeq(rest, LAMBDA f : SortKey(f) <= SortKey(x))

\* a Replace fix applied to text; "except re.error" leaves the text as it
\* was
apply_replace(text, f) ==
    IF f.fix.pattern /= None /\ f.fix.pattern[1] /= <<>>
       /\ f.fix.replacement /= None /\ f.fix.replacement[1] /= <<>>
    THEN IF re_error(f.fix.pattern[1])
         THEN text
         ELSE re_sub(f.fix.pattern[1], f.fix.replacement[1], text)
    ELSE text

\* the loop body without "if fix.fix.line <= len(lines)": list.insert
\* appends when the index is beyond the end
apply_fix_NoBoundsCheck(text, f) ==
    CASE f.fix.action = REPLACE -> apply_replace(text, f)
      [] f.fix.action = COMMENT ->
           IF f.fix.line /= None /\ f.fix.line[1] /= 0
              /\ f.fix.comment /= None /\ f.fix.comment[1] /= <<>>
           THEN Join(ListInsert(Split(text), f.fix.line[1] - 1, f.fix.comment[1]))
           ELSE text
      [] f.fix.action = SUGGEST -> text

\* a loop body that writes the suggestion of a Suggest fix at the top of
\* the text
apply_fix_SuggestWritten(text, f) ==
    CASE f.fix.action = REPLACE -> apply_replace(text, f)
      [] f.fix.action = COMMENT ->
           IF f.fix.line /= None /\ f.fix.line[1] /= 0
              /\ f.fix.comment /= None /\ f.fix.comment[1] /= <<>>
              /\ f.fix.line[1] <= Len(Split(text))
           THEN Join(ListInsert(Split(text), f.fix.line[1] - 1, f.fix.comment[1]))
           ELSE text
      [] f.fix.action = SUGGEST -> f.fix.suggestion[1] \o <<NL>> \o text

\* one pass of the loop body: the text after fix f is applied to text
apply_fix(text, f) ==
    CASE f.fix.action = REPLACE -> apply_replace(text, f)
      [] f.fix.action = COMMENT ->
           IF f.fix.line /= None /\ f.fix.line[1] /= 0
              /\ f.fix.comment /= None /\ f.fix.comment[1] /= <<>>
           THEN LET lines == Split(text) IN
                IF f.fix.line[1] <= Len(lines)
                THEN Join(ListInsert(lines, f.fix.line[1] - 1, f.fix.comment[1]))
                ELSE text
           ELSE text
      [] f.fix.action = SUGGEST -> text

\* the loop with an except clause that gives up the rest of the batch
RECURSIVE apply_in_order_StopAtError(_, _)
apply_in_order_StopAtError(text, fixes) ==
    IF fixes = <<>> THEN text
    ELSE LET f == Head(fixes) IN
         IF f.fix.action = REPLACE /\ f.fix.pattern /= None
            /\ re_error(f.fix.pattern[1])
         THEN text
         ELSE apply_in_order_StopAtError(apply_fix(text, f), Tail(fixes))

RECURSIVE apply_in_order(_, _)
apply_in_order(text, fixes) ==
    IF fixes = <<>> THEN text
    ELSE apply_in_order(apply_fix(text, Head(fixes)), Tail(fixes))

\* apply_fixes that rebuilds the text from code.splitlines(), which drops
\* the line break that ends the text
apply_fixes_Splitlines(code, fixes) ==
    LET start == IF code /= <<>> /\ code[Len(code)] = NL
                 THEN SubSeq(code, 1, Len(code) - 1) ELSE code
    IN  apply_in_order(start, sorted_fixes(fixes))

apply_fixes(code, fixes) == apply_in_order(code, sorted_fixes(fixes))

(* ------------------------------------------------------------------ *)
(* CodeFixService.run_tests                                            *)
(* ------------------------------------------------------------------ *)

\* has_todos that looks for the FIXME marker only
has_todos_FixmeOnly(code) == Contains(code, <<"F", "I", "X", "M", "E", ":">>)

has_todos(code) == Contains(code, <<"T", "O", "D", "O", ":">>) \/ Contains(code, <<"F", "I", "X", "M", "E", ":">>)

\* has_security_issues that looks for the call token only
has_security_issues_EvalOnly(code) == Contains(code, <<"e", "v", "a", "l", "(">>)

has_security_issues(code) == Contains(code, <<"S", "E", "C", "U", "R", "I", "T", "Y", ":">>) \/ Contains(code, <<"e", "v", "a", "l", "(">>)

\* has_style_issues that ignores the case of the marker
has_style_issues_AnyCase(code) == Contains(Lower(code), <<"s", "t", "y", "l", "e", ":">>)

has_style_issues(code) == Contains(code, <<"S", "T", "Y", "L", "E", ":">>)

mock_tests(code) ==
    << [name |-> "Syntax validation", passed |-> TRUE],
       [name |-> "Type checking",     passed |-> TRUE],
       [name |-> "Linting rules",     passed |-> ~has_todos(code) /\ ~has_style_issues(code)],
       [name |-> "Security scan",     passed |-> ~has_security_issues(code)],
       [name |-> "Performance check", passed |-> TRUE] >>

\* run_tests whose success needs only one passing check
run_tests_AnyPassed(file_path, code) ==
    LET tests        == mock_tests(code)
        passed_count == Cardinality({i \in 1..Len(tests) : tests[i].passed})
    IN  [total   |-> Len(tests),
         passed  |-> passed_count,
         failed  |-> Len(tests) - passed_count,
         tests   |-> tests,
         success |-> passed_count > 0]

run_tests(file_path, code) ==
    LET tests        == mock_tests(code)
        passed_count == Cardinality({i \in 1..Len(tests) : tests[i].passed})
    IN  [total   |-> Len(tests),
         passed  |-> passed_count,
         failed  |-> Len(tests) - passed_count,
         tests   |-> tests,
         success |-> passed_count = Len(tests)]

(* ------------------------------------------------------------------ *)
(* CodeFixService.create_pull_request                                  *)
(* ------------------------------------------------------------------ *)

\* f"https://github.com/user/repo/pull/{n}"
mock_pr_url(n) == <<"h", "t", "t", "p", "s", ":", "/", "/", "g", "i", "t", "h", "u", "b", ".", "c", "o", "m", "/", "u", "s", "e", "r", "/", "r", "e", "p", "o", "/", "p", "u", "l", "l", "/">> \o IntToStr(n)

(* ------------------------------------------------------------------ *)
(* Inputs of the checked instance                                      *)
(* ------------------------------------------------------------------ *)

\* contents of one source line
LineSamples == { <<"x">>, <<"e", "v", "a", "l", "(", "x", ")">> }

\* the texts of exactly n sampled lines
TextsOf(n) == { Join(ls) : ls \in [1..n -> LineSamples] }

\* texts beside those: the empty text, a text that ends in a line break,
\* texts that already carry a marker run_tests looks for, and a text that
\* carries the words of the markers without being one
ExtraCodes ==
    { <<>>, <<"x", "\n">>,
      <<"/", "/", " ", "S", "E", "C", "U", "R", "I", "T", "Y", ":", " ", "k">>, <<"/", "/", " ", "T", "O", "D", "O", ":", " ", "k">>, <<"/", "/", " ", "F", "I", "X", "M", "E", ":", " ", "k">>, <<"/", "/", " ", "S", "T", "Y", "L", "E", ":", " ", "k">>,
      <<"t", "o", "d", "o", ":", " ", "f", "i", "x", "m", "e", ":", " ", "s", "t", "y", "l", "e", ":", " ", "s", "e", "c", "u", "r", "i", "t", "y", ":", " ", "E", "v", "a", "l", "(", "k", ")">> }

Codes == UNION { TextsOf(n) : n \in 1..MaxLines } \cup ExtraCodes

\* error.line: an int; the samples reach below 1 and above the line count
LineNos == -1..(MaxLines + 1)

\* (error.type, error.message) samples whose fix is a comment at error.line
CommentSamples ==
    { <<"typo", <<"b", "a", "d">>>>,
      <<"typo", <<"a", "\n", "b">>>> }

\* (error.type, error.line, error.message) samples whose fix is a Replace,
\* which has no line of its own
ReplaceSamples ==
    { <<"security", 1, <<"S", "Q", "L", " ", "I", "n", "j", "e", "c", "t", "i", "o", "n">>>> }

\* the lines a comment sample is reported at: every line number for a
\* one-line message, the first two lines for a message with a line break
SampleLineNos(k) == IF Contains(k[2], <<NL>>) THEN {1, 2} ELSE LineNos

ErrorsAs(repr) ==
    UNION { { [repr |-> repr, type |-> k[1], line |-> l, message |-> k[2]] :
                l \in SampleLineNos(k) } : k \in CommentSamples }
    \cup
    { [repr |-> repr, type |-> k[1], line |-> k[2], message |-> k[3]] :
        k \in ReplaceSamples }

ListsOf(S, n) == UNION { [1..m -> S] : m \in 0..n }

FilePath == "src/app.ts"

\* POST /api/agents/code-fix: message['payload'] as parsed from JSON; a
\* key may be missing (None), and the entries of 'errors' are dicts
AgentRequests ==
    { [caller |-> "code_fix_agent", code |-> c, errors |-> e] :
        c \in {None} \cup { Some(t) : t \in Codes },
        e \in {None} \cup { Some(l) : l \in ListsOf(ErrorsAs("dict"), MaxPayloadErrors) } }

\* (error.type, error.message) samples that reach every rule of every
\* strategy, alone and together with a rule of lower priority
StrategySamples ==
    { <<"style",       <<"U", "s", "e", " ", "O", "p", "t", "i", "o", "n", "a", "l", " ", "C", "h", "a", "i", "n", "i", "n", "g">>>>,
      <<"style",       <<"m", "i", "s", "s", "i", "n", "g", " ", "e", "x", "p", "o", "r", "t">>>>,
      <<"style",       <<"M", "i", "s", "s", "i", "n", "g", " ", "s", "e", "m", "i", "c", "o", "l", "o", "n">>>>,
      <<"style",       <<"e", "x", "p", "o", "r", "t", " ", "w", "i", "t", "h", " ", "o", "p", "t", "i", "o", "n", "a", "l", " ", "c", "h", "a", "i", "n", "i", "n", "g">>>>,
      <<"style",       <<"s", "e", "m", "i", "c", "o", "l", "o", "n", " ", "b", "e", "f", "o", "r", "e", " ", "e", "x", "p", "o", "r", "t">>>>,
      <<"style",       <<"b", "a", "d", " ", "i", "n", "d", "e", "n", "t">>>>,
      <<"bug",         <<"x", " ", "i", "s", " ", "u", "n", "d", "e", "f", "i", "n", "e", "d">>>>,
      <<"bug",         <<"N", "u", "l", "l", " ", "c", "h", "e", "c", "k">>>>,
      <<"bug",         <<"a", "s", "s", "i", "g", "n", "m", "e", "n", "t", " ", "t", "o", " ", "m", "o", "d", "u", "l", "e">>>>,
      <<"bug",         <<"n", "u", "l", "l", " ", "o", "r", " ", "u", "n", "d", "e", "f", "i", "n", "e", "d">>>>,
      <<"bug",         <<"a", "s", "s", "i", "g", "n", "m", "e", "n", "t", " ", "t", "o", " ", "m", "o", "d", "u", "l", "e", " ", "i", "s", " ", "n", "u", "l", "l">>>>,
      <<"bug",         <<"a", "s", "s", "i", "g", "n", "m", "e", "n", "t", " ", "i", "n", " ", "c", "o", "n", "d", "i", "t", "i", "o", "n">>>>,
      <<"security",    <<"S", "Q", "L", " ", "I", "n", "j", "e", "c", "t", "i", "o", "n">>>>,
      <<"security",    <<"X", "S", "S", " ", "r", "i", "s", "k">>>>,
      <<"security",    <<"x", "s", "s", " ", "b", "y", " ", "i", "n", "j", "e", "c", "t", "i", "o", "n">>>>,
      <<"security",    <<"w", "e", "a", "k", " ", "h", "a", "s", "h">>>>,
      <<"performance", <<"s", "l", "o", "w", " ", "l", "o", "o", "p">>>>,
      <<"performance", <<"M", "e", "m", "o", "r", "y", " ", "l", "e", "a", "k">>>>,
      <<"performance", <<"m", "e", "m", "o", "r", "y", " ", "h", "e", "l", "d", " ", "i", "n", " ", "a", " ", "l", "o", "o", "p">>>>,
      <<"performance", <<"s", "l", "o", "w">>>>,
      <<"typo",        <<"n", "u", "l", "l", " ", "l", "o", "o", "p">>>> }

StrategyLineNos == {1, 2}

StrategyErrors ==
    { [repr |-> "CodeError", type |-> k[1], line |-> l, message |-> k[2]] :
        k \in StrategySamples, l \in StrategyLineNos }

\* texts the Replace patterns of the strategies match
StrategyCodes ==
    { <<"x", " ", "=", "=", " ", "n", "u", "l", "l">>, <<"a", ".", "b">>, <<"f", "o", "o", " ", "&", "&", " ", "f", "o", "o", "(", "1", ")">>, <<"i", "n", "t", "e", "r", "f", "a", "c", "e", " ", "F", "o", "o">>,
      <<"l", "e", "t", " ", "a", " ", "=", " ", "b">>, <<"m", "o", "d", "u", "l", "e", " ", "=", " ", "1">>, <<"e", ".", "i", "n", "n", "e", "r", "H", "T", "M", "L", " ", "=", " ", "s">>, <<"e", "v", "a", "l", "(", "x", ")", "\n", "y", ".", "z">> }

\* the service methods called directly, with CodeError objects
ServiceRequests ==
    { [caller |-> "service", code |-> Some(t), errors |-> Some(l)] :
        t \in Codes, l \in ListsOf(ErrorsAs("CodeError"), MaxErrors) }
    \cup
    { [caller |-> "service", code |-> Some(t), errors |-> Some(l)] :
        t \in StrategyCodes, l \in ListsOf(StrategyErrors, MaxStrategyErrors) }

\* a pattern that does not compile: \1( with no group before it
Pat_malformed == BackRef1 \o Lit(<<"(">>)

\* GeneratedFix objects a caller hands to apply_fixes: comments of two
\* texts at the lines 1 and 2, a Replace of the service, a Replace whose
\* pattern is malformed, and suggestions with and without a line
FixSamples ==
    { GeneratedFix(l, "typo", c, CommentFix(l, <<"/", "/", " ">> \o c, "Added comment for manual review"),
                   Confidence, TRUE) : l \in {1, 2}, c \in { <<"A">>, <<"B">> } }
    \cup
    { GeneratedFix(2, "security", <<"S", "Q", "L", " ", "I", "n", "j", "e", "c", "t", "i", "o", "n">>,
                   ReplaceFix(Pat_eval, Rep_eval, "Removed dangerous eval() function"),
                   Confidence, TRUE),
      GeneratedFix(2, "style", <<"b", "a", "d", " ", "p", "a", "t", "t", "e", "r", "n">>,
                   ReplaceFix(Pat_malformed, <<"y">>, "Replace"),
                   Confidence, TRUE),
      GeneratedFix(1, "performance", <<"s", "l", "o", "w", " ", "l", "o", "o", "p">>,
                   SuggestFix(<<"C", "a", "c", "h", "e", " ", "t", "h", "e", " ", "l", "e", "n", "g", "t", "h">>, "Performance suggestion"),
                   Confidence, TRUE),
      GeneratedFix(2, "performance", <<"s", "l", "o", "w">>,
                   [SuggestFix(<<"P", "r", "o", "f", "i", "l", "e", " ", "i", "t">>, "Performance suggestion")
                       EXCEPT !.line = Some(2)],
                   Confidence, TRUE) }

ApplyCodes == { <<"x">>, <<"e", "v", "a", "l", "(", "x", ")", "\n", "y">> }

\* apply_fixes called directly with a fix list of the caller's
ApplyRequests ==
    { [caller |-> "apply_fixes", code |-> Some(t), errors |-> None, fixes |-> l] :
        t \in ApplyCodes, l \in ListsOf(FixSamples, MaxFixes) }

\* settings.max_requests_per_user
max_requests_per_user == 100

\* the api_usage rows of the user when the request arrives: none, a fresh
\* one, one just below the limit, one at the limit
StoreSamples ==
    { <<>>, <<0>>, <<max_requests_per_user - 1>>, <<max_requests_per_user>> }

\* POST /api/blackbox/suggest-fix: a BlackboxRequest; code and user_id are
\* required strings that may be empty
SuggestFixRequests ==
    { [caller |-> "suggest_fix", code |-> Some(t), errors |-> None,
       user_id |-> u, rows |-> r] :
        t \in { <<>>, <<"x">> }, u \in { "", "user-1" }, r \in StoreSamples }

\* the endpoints that check and count the usage of the request's user
RateLimitedEndpoints ==
    { "suggest_fix", "create_file", "analyze_code", "optimize_code",
      "ui_generation_agent", "prompt_refinement_agent" }

\* requests to the rate-limited endpoints beside suggest_fix; code is the
\* text the endpoint requires (prompt, code or userRequest)
RateLimitedRequests ==
    { [caller |-> e, code |-> Some(t), errors |-> None,
       user_id |-> u, rows |-> r] :
        e \in RateLimitedEndpoints \ {"suggest_fix"},
        t \in { <<>>, <<"x">> }, u \in { "", "user-1" }, r \in StoreSamples }

(* ------------------------------------------------------------------ *)
(* State                                                               *)
(* ------------------------------------------------------------------ *)

VARIABLES
    request,       \* the call being served
    debug,         \* settings.debug
    store,         \* table api_usage: the count of each row of the user
    usage,         \* local of a rate-limited endpoint: usage (Optional)
    inc_existing,  \* local of increment_api_usage: existing (Optional)
    caught,        \* local of an except clause: e (Optional)
    pc,            \* the statement the call is at
    code,          \* local: code
    errors,        \* local: errors
    fixes,         \* local: fixes
    fixed_code,    \* local: fixed_code
    test_results,  \* local: test_results (Optional)
    pr_url,        \* local: pr_url (Optional)
    exc,           \* the exception in flight (Optional)
    response,      \* the HTTP response sent (Optional)
    calls          \* history: the service methods entered, in order

vars == <<request, debug, store, usage, inc_existing, caught, pc, code, errors, fixes, fixed_code, test_results, pr_url,
          exc, response, calls>>

\* an HTTP request reaches an application whose settings.debug is either
\* value; a direct caller of the service runs with the default (True)
Init ==
    /\ request \in AgentRequests \cup ServiceRequests \cup SuggestFixRequests
                   \cup ApplyRequests \cup RateLimitedRequests
    /\ debug \in IF request.caller \in {"service", "apply_fixes"} THEN {TRUE} ELSE BOOLEAN
    /\ store = IF request.caller \in RateLimitedEndpoints THEN request.rows ELSE <<>>
    /\ usage = None
    /\ inc_existing = None
    /\ caught = None
    /\ pc = CASE request.caller = "code_fix_agent" -> "read_payload"
            [] request.caller = "service"        -> "generate_fixes"
            [] request.caller \in RateLimitedEndpoints -> "suggest_fix"
            [] request.caller = "apply_fixes"    -> "apply_fixes"
    /\ code = IF request.caller \in {"service", "apply_fixes"}
              THEN request.code[1] ELSE <<>>
    /\ errors = IF request.caller = "service" THEN request.errors[1] ELSE <<>>
    /\ fixes = IF request.caller = "apply_fixes" THEN request.fixes ELSE <<>>
    /\ fixed_code = <<>>
    /\ test_results = None
    /\ pr_url = None
    /\ exc = None
    /\ response = None
    /\ calls = <<>>

(* ------------------------------------------------------------------ *)
(* code_fix_agent and the service methods it awaits                    *)
(* ------------------------------------------------------------------ *)

\* payload.get(key, default)
PayloadGet(opt, default) == IF opt = None THEN default ELSE opt[1]

HTTPException(status_code, detail) ==
    [class |-> "HTTPException", status_code |-> status_code, detail |-> detail]

OtherException(class, text) ==
    [class |-> class, status_code |-> 0, detail |-> <<text>>]

\* str(e)
ExcText(e) ==
    IF e.class = "HTTPException"
    THEN <<ToString(e.status_code), ": ">> \o e.detail
    ELSE e.detail

\* agents.py 24-32: read the payload; "if not code: raise HTTPException(400)"
ReadPayload ==
    /\ pc = "read_payload"
    /\ LET c == PayloadGet(request.code, <<>>) IN
       /\ code' = c
       /\ errors' = PayloadGet(request.errors, <<>>)
       /\ IF c = <<>>
          THEN /\ exc' = Some(HTTPException(400, <<"Code is required">>))
               /\ pc' = "except"
          ELSE /\ exc' = exc
               /\ pc' = "generate_fixes"
    /\ UNCHANGED <<request, debug, store, usage, inc_existing, caught, fixes, fixed_code, test_results, pr_url, response, calls>>

\* fixes = await code_fix_service.generate_fixes(code, errors, file_path)
GenerateFixes ==
    /\ pc = "generate_fixes"
    /\ calls' = Append(calls, "generate_fixes")
    /\ IF generate_fixes_raises(code, errors)
       THEN /\ exc' = Some(OtherException("AttributeError",
                              "'dict' object has no attribute 'type'"))
            /\ pc' = "except"
            /\ fixes' = fixes
       ELSE /\ fixes' = generate_fixes(code, errors)
            /\ pc' = "apply_fixes"
            /\ exc' = exc
    /\ UNCHANGED <<request, debug, store, usage, inc_existing, caught, code, errors, fixed_code, test_results, pr_url, response>>

\* fixed_code = await code_fix_service.apply_fixes(code, fixes)
ApplyFixes ==
    /\ pc = "apply_fixes"
    /\ calls' = Append(calls, "apply_fixes")
    /\ fixed_code' = apply_fixes(code, fixes)
    /\ pc' = "run_tests"
    /\ UNCHANGED <<request, debug, store, usage, inc_existing, caught, code, errors, fixes, test_results, pr_url, exc, response>>

\* test_results = await code_fix_service.run_tests(file_path, fixed_code);
\* a direct caller of the service stops here
RunTests ==
    /\ pc = "run_tests"
    /\ calls' = Append(calls, "run_tests")
    /\ test_results' = Some(run_tests(FilePath, fixed_code))
    /\ pc' = IF request.caller = "code_fix_agent" THEN "gate" ELSE "done"
    /\ UNCHANGED <<request, debug, store, usage, inc_existing, caught, code, errors, fixes, fixed_code, pr_url, exc, response>>

\* pr_gate that lets every result through
pr_gate_Always(results) == TRUE

\* pr_gate with the test inverted
pr_gate_Negated(results) == ~results.success

\* if test_results.get('success', False):
pr_gate(results) == results.success

\* agents.py 44-45: pr_url = None, then the gate
Gate ==
    /\ pc = "gate"
    /\ pr_url' = None
    /\ pc' = IF pr_gate(test_results[1]) THEN "create_pull_request" ELSE "respond"
    /\ UNCHANGED <<request, debug, store, usage, inc_existing, caught, code, errors, fixes, fixed_code, test_results, exc, response, calls>>

\* pr_url = await code_fix_service.create_pull_request(...): the mock
\* returns a URL that ends in a random number
CreatePullRequest ==
    /\ pc = "create_pull_request"
    /\ calls' = Append(calls, "create_pull_request")
    /\ \E n \in 1..MaxPrNumber : pr_url' = Some(mock_pr_url(n))
    /\ pc' = "respond"
    /\ UNCHANGED <<request, debug, store, usage, inc_existing, caught, code, errors, fixes, fixed_code, test_results, exc, response>>

\* the artifact-creation call fails: what create_pull_request is to do
\* (branch, commit, pull request on the source-control host) raises
CreatePullRequestRaises ==
    /\ pc = "create_pull_request"
    /\ calls' = Append(calls, "create_pull_request")
    /\ exc' = Some(OtherException("Exception", "pull request creation failed"))
    /\ pc' = "except"
    /\ UNCHANGED <<request, debug, store, usage, inc_existing, caught, code, errors, fixes, fixed_code, test_results, pr_url, response>>

\* bool(pr_url)
Bool(opt) == opt /= None /\ opt[1] /= <<>>

\* agents.py 48-59: return CodeFixResponse(...), sent with status 200
Respond ==
    /\ pc = "respond"
    /\ response' = Some([status_code |-> 200,
                         content |-> [fixes |-> fixes,
                                      fixed_code |-> fixed_code,
                                      test_results |-> test_results[1],
                                      pr_url |-> pr_url,
                                      summary |-> [errors_fixed |-> Len(fixes),
                                                   tests_run |-> test_results[1].total,
                                                   tests_passed |-> test_results[1].passed,
                                                   auto_deployed |-> Bool(pr_url)]]])
    /\ pc' = "done"
    /\ UNCHANGED <<request, debug, store, usage, inc_existing, caught, code, errors, fixes, fixed_code, test_results, pr_url, exc, calls>>

\* agents.py 61-63: "except Exception as e" catches every exception raised
\* in the try block, the HTTPException of line 32 included, and raises
\* HTTPException(500, f"Code fix failed: {str(e)}")
Except ==
    /\ pc = "except"
    /\ caught' = exc
    /\ exc' = Some(HTTPException(500, <<"Code fix failed: ">> \o ExcText(exc[1])))
    /\ pc' = "raised"
    /\ UNCHANGED <<request, debug, store, usage, inc_existing, code, errors, fixes, fixed_code, test_results, pr_url, response, calls>>

\* main.py 147-157: the response to an HTTPException that left the endpoint
http_exception_handler ==
    /\ pc = "raised"
    /\ exc[1].class = "HTTPException"
    /\ response' = Some([status_code |-> exc[1].status_code,
                         content |-> [success |-> FALSE,
                                      error |-> exc[1].detail,
                                      status_code |-> exc[1].status_code]])
    /\ pc' = "done"
    /\ UNCHANGED <<request, debug, store, usage, inc_existing, caught, code, errors, fixes, fixed_code, test_results, pr_url, exc, calls>>

(* ------------------------------------------------------------------ *)
(* suggest_fix and the usage store (database.py, blackbox.py)          *)
(* ------------------------------------------------------------------ *)

\* table('api_usage').select('count').eq('user_id', u).single().execute():
\* raises when the call fails or when the rows of the user are not exactly
\* one; otherwise its data is the row
select_single(rows, fails) ==
    IF fails \/ Len(rows) /= 1
    THEN [raised |-> TRUE, value |-> None]
    ELSE [raised |-> FALSE, value |-> Some([count |-> rows[1]])]

\* get_api_usage without its try / except
get_api_usage_Unguarded(rows, fails) == select_single(rows, fails)

\* SupabaseClient.get_api_usage: the data, or None when the query raised
get_api_usage(rows, fails) ==
    [raised |-> FALSE, value |-> select_single(rows, fails).value]

\* the rows after the write of increment_api_usage, which raises nothing
\* to its caller: existing is the result of its own get_api_usage; update
\* sets count = existing['count'] + 1 on every row of the user, insert adds
\* a row with count 1; a write that raises leaves the rows as they were
increment_api_usage(rows, existing, writeFails) ==
    IF writeFails THEN rows
    ELSE IF existing /= None
    THEN [i \in 1..Len(rows) |-> existing[1].count + 1]
    ELSE Append(rows, 1)

\* the detail of the 400 an endpoint raises for an empty required text
RequiredDetail(endpoint) ==
    CASE endpoint \in {"suggest_fix", "analyze_code", "optimize_code"} -> "Code is required"
      [] endpoint \in {"create_file", "ui_generation_agent"}           -> "Prompt is required"
      [] endpoint = "prompt_refinement_agent"                          -> "User request is required"

\* blackbox.py 22-26: "if not request.code" / "if not request.user_id";
\* the same two tests open create_file (57-61), analyze_code (102-106),
\* optimize_code (152-156), ui_generation_agent (75-79) and
\* prompt_refinement_agent (117-121)
SuggestFixValidate ==
    /\ pc = "suggest_fix"
    /\ IF request.code[1] = <<>>
       THEN /\ exc' = Some(HTTPException(400, <<RequiredDetail(request.caller)>>))
            /\ pc' = "sf_except"
       ELSE IF request.user_id = ""
       THEN /\ exc' = Some(HTTPException(401, <<"User ID is required">>))
            /\ pc' = "sf_except"
       ELSE /\ exc' = exc
            /\ pc' = "sf_get_usage"
    /\ UNCHANGED <<request, debug, store, usage, inc_existing, caught, code, errors, fixes,
                   fixed_code, test_results, pr_url, response, calls>>

\* blackbox.py 29: usage = await db.get_api_usage(request.user_id); the
\* query may fail
SuggestFixGetUsage ==
    /\ pc = "sf_get_usage"
    /\ \E fails \in BOOLEAN :
          LET r == get_api_usage(store, fails) IN
          /\ calls' = calls \o <<"get_api_usage">>
                            \o (IF select_single(store, fails).raised
                                THEN <<"store_error">> ELSE <<>>)
          /\ IF r.raised
             THEN /\ exc' = Some(OtherException("APIError", "api_usage query failed"))
                  /\ pc' = "sf_except"
                  /\ usage' = usage
             ELSE /\ usage' = r.value
                  /\ pc' = "sf_check"
                  /\ exc' = exc
    /\ UNCHANGED <<request, debug, store, inc_existing, caught, code, errors, fixes,
                   fixed_code, test_results, pr_url, response>>

\* the limit test with > for >=
over_limit_Strict(u) == u /= None /\ u[1].count > max_requests_per_user

\* if usage and usage.get('count', 0) >= settings.max_requests_per_user
over_limit(u) == u /= None /\ u[1].count >= max_requests_per_user

\* blackbox.py 30-31
SuggestFixCheckLimit ==
    /\ pc = "sf_check"
    /\ IF over_limit(usage)
       THEN /\ exc' = Some(HTTPException(429, <<"API request limit reached">>))
            /\ pc' = "sf_except"
       ELSE /\ exc' = exc
            /\ pc' = "sf_increment"
    /\ UNCHANGED <<request, debug, store, usage, inc_existing, caught, code, errors, fixes,
                   fixed_code, test_results, pr_url, response, calls>>

\* blackbox.py 34: await db.increment_api_usage(request.user_id), that is
\* database.py 23-44: its own get_api_usage, then update or insert; either
\* query may fail and the method then returns None
SuggestFixIncrement ==
    /\ pc = "sf_increment"
    /\ \E getFails, writeFails \in BOOLEAN :
          /\ inc_existing' = get_api_usage(store, getFails).value
          /\ store' = increment_api_usage(store, inc_existing', writeFails)
          /\ calls' = calls \o <<"increment_api_usage">>
                            \o (IF select_single(store, getFails).raised \/ writeFails
                                THEN <<"store_error">> ELSE <<>>)
    /\ pc' = "sf_ai"
    /\ UNCHANGED <<request, debug, usage, caught, code, errors, fixes,
                   fixed_code, test_results, pr_url, exc, response>>

\* BlackboxService.suggest_fix returns a BlackboxResponse on every path:
\* the AI's answer, the API-error answer or the exception answer
BlackboxResponses ==
    { [suggestions |-> <<"<content of the first choice>">>,
       explanation |-> "AI-generated fix suggestions"],
      [suggestions |-> <<>>,
       explanation |-> "AI-generated fix suggestions"],
      [suggestions |-> <<"Unable to get AI suggestions at this time">>,
       explanation |-> "API error occurred"],
      [suggestions |-> <<"Error: <exception text>">>,
       explanation |-> "Service temporarily unavailable"] }

\* BlackboxService.create_file returns a text on every path: the AI's
\* answer, the placeholder or the error placeholder
CreateFileResults ==
    { "<content of the first choice>",
      "// Generated <file_type> file",
      "// Error generating file: <exception text>" }

\* the call an endpoint awaits after the usage was counted
AiCall(endpoint) ==
    CASE endpoint = "suggest_fix"             -> "blackbox_service.suggest_fix"
      [] endpoint = "prompt_refinement_agent" -> "_refine_prompt_with_rules"
      [] OTHER                                -> "blackbox_service.create_file"

\* SuccessResponse.message of the endpoints that return one
SuccessMessage(endpoint) ==
    CASE endpoint = "create_file"             -> "File content generated successfully"
      [] endpoint = "analyze_code"            -> "Code analysis completed successfully"
      [] endpoint = "optimize_code"           -> "Code optimization completed successfully"
      [] endpoint = "ui_generation_agent"     -> "UI component generated successfully"
      [] endpoint = "prompt_refinement_agent" -> "Prompt refined successfully"

\* the bodies an endpoint returns
Responses(endpoint) ==
    CASE endpoint = "suggest_fix" -> BlackboxResponses
      [] endpoint = "prompt_refinement_agent" ->
           { [success |-> TRUE, message |-> SuccessMessage(endpoint),
              data |-> "<refined prompt>"] }
      [] OTHER ->
           { [success |-> TRUE, message |-> SuccessMessage(endpoint), data |-> d] :
               d \in CreateFileResults }

\* blackbox.py 37-43: response = await blackbox_service.suggest_fix(...);
\* return response, sent with status 200; the other endpoints await their
\* call and return a SuccessResponse
SuggestFixRespond ==
    /\ pc = "sf_ai"
    /\ calls' = Append(calls, AiCall(request.caller))
    /\ \E r \in Responses(request.caller) :
          response' = Some([status_code |-> 200, content |-> r])
    /\ pc' = "done"
    /\ UNCHANGED <<request, debug, store, usage, inc_existing, caught, code, errors, fixes,
                   fixed_code, test_results, pr_url, exc>>

\* the detail prefix of the 500 an endpoint raises for another exception
FailedDetail(endpoint) ==
    CASE endpoint = "suggest_fix"             -> "Failed to get fix suggestions: "
      [] endpoint = "create_file"             -> "Failed to generate file: "
      [] endpoint = "analyze_code"            -> "Code analysis failed: "
      [] endpoint = "optimize_code"           -> "Code optimization failed: "
      [] endpoint = "ui_generation_agent"     -> "UI generation failed: "
      [] endpoint = "prompt_refinement_agent" -> "Prompt refinement failed: "

\* blackbox.py 45-49: "except HTTPException: raise", then "except Exception
\* as e: raise HTTPException(500, f"Failed to get fix suggestions: {str(e)}")"
SuggestFixExcept ==
    /\ pc = "sf_except"
    /\ IF exc[1].class = "HTTPException"
       THEN /\ exc' = exc
            /\ caught' = caught
       ELSE /\ caught' = exc
            /\ exc' = Some(HTTPException(500, <<FailedDetail(request.caller)>>
                                                \o ExcText(exc[1])))
    /\ pc' = "raised"
    /\ UNCHANGED <<request, debug, store, usage, inc_existing, code, errors, fixes,
                   fixed_code, test_results, pr_url, response, calls>>

Next ==
    \/ ReadPayload
    \/ GenerateFixes
    \/ ApplyFixes
    \/ RunTests
    \/ Gate
    \/ CreatePullRequest
    \/ Respond
    \/ Except
    \/ http_exception_handler
    \/ SuggestFixValidate
    \/ SuggestFixGetUsage
    \/ SuggestFixCheckLimit
    \/ SuggestFixIncrement
    \/ SuggestFixRespond
    \/ SuggestFixExcept

Spec == Init /\ [][Next]_vars

\* the same system with an artifact-creation call that can fail
NextFault == Next \/ CreatePullRequestRaises

SpecFault == Init /\ [][NextFault]_vars

(* ------------------------------------------------------------------ *)
(* Requests of one user in flight together                             *)
(*                                                                     *)
(* Each query of the usage store is one step, and the steps of the     *)
(* requests interleave: the requests are served by different server    *)
(* processes that share the api_usage table.  (Within one event loop   *)
(* the synchronous store client does not suspend between the read of   *)
(* line 29 and the write of line 34.)  The store does not fail.  pc,   *)
(* usage, inc_existing and response hold one value per request.        *)
(* ------------------------------------------------------------------ *)

Requests == 1..MaxRequests

\* the user has one row: fresh, just below the limit or at the limit
ConcurrentInit ==
    /\ request \in { [caller |-> "suggest_fix", code |-> Some(<<"x">>), errors |-> None,
                      user_id |-> "user-1", rows |-> r] :
                        r \in { s \in StoreSamples : Len(s) = 1 } }
    /\ debug = TRUE
    /\ store = request.rows
    /\ usage = [r \in Requests |-> None]
    /\ inc_existing = [r \in Requests |-> None]
    /\ caught = None
    /\ pc = [r \in Requests |-> "sf_get_usage"]
    /\ code = <<>>
    /\ errors = <<>>
    /\ fixes = <<>>
    /\ fixed_code = <<>>
    /\ test_results = None
    /\ pr_url = None
    /\ exc = None
    /\ response = [r \in Requests |-> None]
    /\ calls = <<>>

\* blackbox.py 29 / database.py 17: the read of the limit test
ConcurrentGetUsage(r) ==
    /\ pc[r] = "sf_get_usage"
    /\ usage' = [usage EXCEPT ![r] = get_api_usage(store, FALSE).value]
    /\ pc' = [pc EXCEPT ![r] = "sf_check"]
    /\ UNCHANGED <<request, debug, store, inc_existing, caught, code, errors, fixes,
                   fixed_code, test_results, pr_url, exc, response, calls>>

\* blackbox.py 30-31, and the 429 response to the HTTPException
ConcurrentCheckLimit(r) ==
    /\ pc[r] = "sf_check"
    /\ IF over_limit(usage[r])
       THEN /\ response' = [response EXCEPT ![r] =
                               Some([status_code |-> 429,
                                     content |-> [success |-> FALSE,
                                                  error |-> <<"API request limit reached">>,
                                                  status_code |-> 429]])]
            /\ pc' = [pc EXCEPT ![r] = "done"]
       ELSE /\ response' = response
            /\ pc' = [pc EXCEPT ![r] = "sf_increment"]
    /\ UNCHANGED <<request, debug, store, usage, inc_existing, caught, code, errors, fixes,
                   fixed_code, test_results, pr_url, exc, calls>>

\* database.py 27: existing = await self.get_api_usage(user_id)
ConcurrentIncrementRead(r) ==
    /\ pc[r] = "sf_increment"
    /\ inc_existing' = [inc_existing EXCEPT ![r] = get_api_usage(store, FALSE).value]
    /\ pc' = [pc EXCEPT ![r] = "sf_increment_write"]
    /\ UNCHANGED <<request, debug, store, usage, caught, code, errors, fixes,
                   fixed_code, test_results, pr_url, exc, response, calls>>

\* database.py 29-39: the update (or insert) with the count read before
ConcurrentIncrementWrite(r) ==
    /\ pc[r] = "sf_increment_write"
    /\ store' = increment_api_usage(store, inc_existing[r], FALSE)
    /\ calls' = Append(calls, "increment_api_usage")
    /\ pc' = [pc EXCEPT ![r] = "sf_ai"]
    /\ UNCHANGED <<request, debug, usage, inc_existing, caught, code, errors, fixes,
                   fixed_code, test_results, pr_url, exc, response>>

\* blackbox.py 37-43
ConcurrentRespond(r) ==
    /\ pc[r] = "sf_ai"
    /\ \E b \in BlackboxResponses :
          response' = [response EXCEPT ![r] = Some([status_code |-> 200, content |-> b])]
    /\ pc' = [pc EXCEPT ![r] = "done"]
    /\ UNCHANGED <<request, debug, store, usage, inc_existing, caught, code, errors, fixes,
                   fixed_code, test_results, pr_url, exc, calls>>

ConcurrentNext ==
    \/ \E r \in Requests : ConcurrentGetUsage(r)
    \/ \E r \in Requests : ConcurrentCheckLimit(r)
    \/ \E r \in Requests : ConcurrentIncrementRead(r)
    \/ \E r \in Requests : ConcurrentIncrementWrite(r)
    \/ \E r \in Requests : ConcurrentRespond(r)

SpecConcurrent == ConcurrentInit /\ [][ConcurrentNext]_vars


(* ------------------------------------------------------------------ *)
(* Properties                                                          *)
(* ------------------------------------------------------------------ *)

IsAgent == request.caller = "code_fix_agent"

\* the code and the errors the endpoint reads from the payload
PayloadCode == PayloadGet(request.code, <<>>)
PayloadErrors == PayloadGet(request.errors, <<>>)

Entered(method) == \E i \in DOMAIN calls : calls[i] = method

\* apply_fixes has returned: fixed_code is the patched text
Applied == Entered("apply_fixes")

Sent == response /= None

LineCount(text) == Len(Split(text))

\* C1: in every run of code_fix_agent create_pull_request is entered at
\* most once, only after run_tests has returned for the patched code and
\* only when that result has success = true; so pr_url is non-null only if
\* test_results.success is true, and when success is false no artifact is
\* requested and pr_url is None.
C1_PrOnlyAfterPassingTests ==
    LET prCalls == { i \in DOMAIN calls : calls[i] = "create_pull_request" } IN
    /\ Cardinality(prCalls) <= 1
    /\ \A i \in prCalls :
          /\ \E j \in 1..(i - 1) : calls[j] = "run_tests"
          /\ test_results = Some(run_tests(FilePath, fixed_code))
          /\ test_results[1].success
    /\ pr_url /= None => test_results /= None /\ test_results[1].success
    /\ (IsAgent /\ Sent /\ response[1].status_code = 200) =>
          /\ response[1].content.pr_url = pr_url
          /\ response[1].content.pr_url /= None => response[1].content.test_results.success
          /\ ~response[1].content.test_results.success =>
                response[1].content.pr_url = None /\ prCalls = {}

C1_Witness ==
    /\ IsAgent /\ pc = "done" /\ Sent
    /\ response[1].status_code = 200
    /\ response[1].content.pr_url /= None
    /\ Entered("create_pull_request")

\* C2: a code-fix request whose payload has missing or empty code is
\* rejected before generate_fixes, apply_fixes, run_tests or
\* create_pull_request is called, and the response sent is a client-fault
\* (HTTP 400) response, not a server-fault (5xx) response.
C2_EmptyCodeIsClientFault ==
    (IsAgent /\ PayloadCode = <<>>) =>
        /\ calls = <<>>
        /\ Sent => response[1].status_code = 400

\* C3: for every non-empty code and every list of reported errors taken
\* from the request payload, generate_fixes, apply_fixes and run_tests
\* complete without raising, so code_fix_agent never sends a server-fault
\* response because of them (the artifact-creation call of this
\* specification never fails).
C3_StagesNeverRaise ==
    (IsAgent /\ PayloadCode /= <<>>) =>
        /\ pc /= "except"
        /\ Sent => response[1].status_code < 500

DistinctInRangeComments(text, fs) ==
    /\ \A i \in DOMAIN fs :
          /\ fs[i].fix.action = COMMENT
          /\ fs[i].fix.line /= None
          /\ fs[i].fix.line[1] \in 1..LineCount(text)
    /\ \A i, j \in DOMAIN fs : i /= j => fs[i].fix.line /= fs[j].fix.line

\* lines[i..] with the comment of the fix that targets line k put directly
\* before line k
RECURSIVE CommentsBeforeTargets(_, _, _)
CommentsBeforeTargets(lines, fs, i) ==
    IF i > Len(lines) THEN <<>>
    ELSE LET at == { k \in DOMAIN fs : fs[k].fix.line = Some(i) } IN
         (IF at = {} THEN <<>> ELSE << fs[CHOOSE k \in at : TRUE].fix.comment[1] >>)
         \o << lines[i] >>
         \o CommentsBeforeTargets(lines, fs, i + 1)

\* C5: for N comment fixes whose target lines are distinct and each between
\* 1 and the original line count, given in any order, apply_fixes yields the
\* original lines in their order, each comment directly before the line
\* that was at its target position in the original text.
C5_CommentsAtOriginalLines ==
    (Applied /\ DistinctInRangeComments(code, fixes)) =>
        fixed_code = Join(CommentsBeforeTargets(Split(code), fixes, 1))

C5_Witness ==
    /\ Applied
    /\ Len(fixes) >= 2
    /\ DistinctInRangeComments(code, fixes)
    /\ fixes[1].fix.line[1] < fixes[2].fix.line[1]

\* C6: apply_fixes called with an empty fix list returns exactly the
\* original text.
C6_EmptyFixListIsIdentity ==
    (Applied /\ fixes = <<>>) => fixed_code = code

C6_Witness ==
    /\ Applied /\ fixes = <<>>
    /\ code /= <<>> /\ code[Len(code)] = NL

\* C7: for a security error whose message contains "injection", the patched
\* text that apply_fixes returns holds no occurrence of "eval(".
C7_InjectionFixRemovesEval ==
    (Applied /\ \E i \in DOMAIN errors :
                   /\ errors[i].type = "security"
                   /\ Contains(Lower(errors[i].message), <<"i", "n", "j", "e", "c", "t", "i", "o", "n">>)) =>
        ~Contains(fixed_code, <<"e", "v", "a", "l", "(">>)

\* C8: whenever the patched text contains "SECURITY:", the "Security scan"
\* check fails, overall success is false, no artifact is requested and the
\* endpoint returns pr_url = None.
C8_SecurityMarkerBlocksPr ==
    (test_results /= None /\ Contains(fixed_code, <<"S", "E", "C", "U", "R", "I", "T", "Y", ":">>)) =>
        /\ test_results[1].tests[4].name = "Security scan"
        /\ ~test_results[1].tests[4].passed
        /\ ~test_results[1].success
        /\ ~Entered("create_pull_request")
        /\ pr_url = None
        /\ (IsAgent /\ pc = "done") =>
              /\ Sent /\ response[1].status_code = 200
              /\ response[1].content.pr_url = None

C8_Witness ==
    /\ IsAgent /\ pc = "done" /\ Sent
    /\ Contains(fixed_code, <<"S", "E", "C", "U", "R", "I", "T", "Y", ":">>)

\* none of the markers run_tests looks for
Clean(text) ==
    /\ ~Contains(text, <<"T", "O", "D", "O", ":">>)
    /\ ~Contains(text, <<"F", "I", "X", "M", "E", ":">>)
    /\ ~Contains(text, <<"S", "T", "Y", "L", "E", ":">>)
    /\ ~Contains(text, <<"S", "E", "C", "U", "R", "I", "T", "Y", ":">>)
    /\ ~Contains(text, <<"e", "v", "a", "l", "(">>)

\* C9: for a request with non-empty clean code and zero errors the endpoint
\* returns fixes = [], fixed_code equal to the code, test_results.success =
\* true with all five checks passed, and a non-null pr_url obtained from
\* create_pull_request.
C9_CleanCodeGetsPr ==
    (IsAgent /\ pc = "done" /\ PayloadCode /= <<>> /\ Clean(PayloadCode)
            /\ PayloadErrors = <<>>) =>
        /\ Sent /\ response[1].status_code = 200
        /\ response[1].content.fixes = <<>>
        /\ response[1].content.fixed_code = PayloadCode
        /\ response[1].content.test_results.success
        /\ response[1].content.test_results.total = 5
        /\ response[1].content.test_results.passed = 5
        /\ \A i \in 1..5 : response[1].content.test_results.tests[i].passed
        /\ Entered("create_pull_request")
        /\ response[1].content.pr_url /= None
        /\ \E n \in 1..MaxPrNumber : response[1].content.pr_url = Some(mock_pr_url(n))

C9_Witness ==
    /\ IsAgent /\ pc = "done" /\ Sent
    /\ PayloadCode /= <<>> /\ Clean(PayloadCode) /\ PayloadErrors = <<>>
    /\ LineCount(PayloadCode) >= 2

\* one error, of a kind that is none of bug / security / style / performance
SingleGenericError ==
    /\ Len(errors) = 1
    /\ errors[1].type \notin {"bug", "security", "style", "performance"}

\* the fix of the single generic error is the comment "// REVIEW: <message>"
\* at the error's line
ReviewCommentFix ==
    /\ Len(fixes) = 1
    /\ fixes[1].fix.action = COMMENT
    /\ fixes[1].fix.line = Some(errors[1].line)
    /\ fixes[1].fix.comment = Some(<<"/", "/", " ", "R", "E", "V", "I", "E", "W", ":", " ">> \o errors[1].message)

\* C10 as stated: for a single error of a generic kind the fix is the
\* comment "// REVIEW: <message>" at the error's line and the patched text
\* has the original line count plus 1, for every error line and every
\* source text.
C10_AlwaysOneMoreLine ==
    (Applied /\ SingleGenericError) =>
        /\ ReviewCommentFix
        /\ LineCount(fixed_code) = LineCount(code) + 1

\* C10 amended: the fix is the comment "// REVIEW: <message>" at the
\* error's line L; when 1 <= L <= original line count and the message has
\* no line break, the comment is line L of the patched text, the other
\* lines are the original ones in order, and the line count is the
\* original plus 1; when L = 0 or L > original line count the text is
\* unchanged.
C10_OneMoreLineInRange ==
    (Applied /\ SingleGenericError) =>
        LET L     == errors[1].line
            lines == Split(code)
            out   == Split(fixed_code)
        IN
        /\ ReviewCommentFix
        /\ (L \in 1..Len(lines) /\ ~Contains(errors[1].message, <<NL>>)) =>
              /\ Len(out) = Len(lines) + 1
              /\ out[L] = <<"/", "/", " ", "R", "E", "V", "I", "E", "W", ":", " ">> \o errors[1].message
              /\ SubSeq(out, 1, L - 1) = SubSeq(lines, 1, L - 1)
              /\ SubSeq(out, L + 1, Len(out)) = SubSeq(lines, L, Len(lines))
        /\ (L = 0 \/ L > Len(lines)) => fixed_code = code

C10_Witness ==
    /\ Applied /\ SingleGenericError
    /\ errors[1].line \in 2..LineCount(code)
    /\ ~Contains(errors[1].message, <<NL>>)
    /\ fixed_code /= code

\* run_tests has returned: test_results is the result for fixed_code
Tested == test_results /= None

\* C11: for every text that contains "TODO:", run_tests reports the
\* "Linting rules" check as failed and overall success = false.
C11_TodoFailsLint ==
    (Tested /\ Contains(fixed_code, <<"T", "O", "D", "O", ":">>)) =>
        /\ test_results[1].tests[3].name = "Linting rules"
        /\ ~test_results[1].tests[3].passed
        /\ ~test_results[1].success

C11_Witness ==
    /\ Tested
    /\ Contains(fixed_code, <<"T", "O", "D", "O", ":">>)
    /\ ~Contains(fixed_code, <<"F", "I", "X", "M", "E", ":">>)
    /\ ~Contains(fixed_code, <<"S", "T", "Y", "L", "E", ":">>)
    /\ ~Contains(code, <<"T", "O", "D", "O", ":">>)

CheckPassed(name) ==
    \E i \in DOMAIN test_results[1].tests :
        /\ test_results[1].tests[i].name = name
        /\ test_results[1].tests[i].passed

\* C12: run_tests decides each check from substring presence alone:
\* "Linting rules" fails iff the text contains "TODO:", "FIXME:" or
\* "STYLE:"; "Security scan" fails iff the text contains "SECURITY:" or
\* "eval("; "Syntax validation", "Type checking" and "Performance check"
\* pass for every text.
C12_ChecksFollowSubstrings ==
    Tested =>
        /\ ~CheckPassed("Linting rules") <=>
              \/ Contains(fixed_code, <<"T", "O", "D", "O", ":">>)
              \/ Contains(fixed_code, <<"F", "I", "X", "M", "E", ":">>)
              \/ Contains(fixed_code, <<"S", "T", "Y", "L", "E", ":">>)
        /\ ~CheckPassed("Security scan") <=>
              \/ Contains(fixed_code, <<"S", "E", "C", "U", "R", "I", "T", "Y", ":">>)
              \/ Contains(fixed_code, <<"e", "v", "a", "l", "(">>)
        /\ CheckPassed("Syntax validation")
        /\ CheckPassed("Type checking")
        /\ CheckPassed("Performance check")

C12_Witness ==
    /\ Tested
    /\ Contains(Lower(fixed_code), <<"s", "t", "y", "l", "e", ":">>)
    /\ CheckPassed("Linting rules")
    /\ CheckPassed("Security scan")

\* C13: every result of run_tests has total = 5, the five checks in the
\* order syntax, types, lint, security, performance, passed + failed =
\* total, passed equal to the number of checks with passed = true, and
\* success true iff all five checks passed.
C13_ResultShape ==
    Tested =>
        LET r == test_results[1] IN
        /\ r.total = 5
        /\ [i \in 1..Len(r.tests) |-> r.tests[i].name] =
              << "Syntax validation", "Type checking", "Linting rules",
                 "Security scan", "Performance check" >>
        /\ r.passed + r.failed = r.total
        /\ r.passed = Cardinality({ i \in 1..5 : r.tests[i].passed })
        /\ r.success <=> \A i \in 1..5 : r.tests[i].passed

C13_Witness ==
    /\ Tested
    /\ test_results[1].passed = 3
    /\ test_results[1].failed = 2

\* generate_fixes has returned for a list of CodeError objects
Generated ==
    /\ Entered("generate_fixes")
    /\ \A i \in DOMAIN errors : HasErrorAttributes(errors[i])

\* C14: generate_fixes yields exactly one GeneratedFix per input error, in
\* input order: kind style / bug / security / performance selects the
\* strategy of that name, any other kind the generic strategy, and each fix
\* has error_id = error.line, type = error.type and description =
\* error.message.
C14_OneFixPerError ==
    Generated =>
        /\ Len(fixes) = Len(errors)
        /\ \A i \in DOMAIN errors :
              /\ fixes[i].error_id = errors[i].line
              /\ fixes[i].type = errors[i].type
              /\ fixes[i].description = errors[i].message
              /\ errors[i].type = "style" =>
                    fixes[i].fix = _generate_style_fix(errors[i], code)
              /\ errors[i].type = "bug" =>
                    fixes[i].fix = _generate_bug_fix(errors[i], code)
              /\ errors[i].type = "security" =>
                    fixes[i].fix = _generate_security_fix(errors[i], code)
              /\ errors[i].type = "performance" =>
                    fixes[i].fix = _generate_performance_fix(errors[i], code)
              /\ errors[i].type \notin {"style", "bug", "security", "performance"} =>
                    fixes[i].fix = _generate_generic_fix(errors[i], code)

C14_Witness ==
    /\ Generated
    /\ Len(fixes) = 1
    /\ errors[1].type = "performance"
    /\ errors[1].line = 2
    /\ fixes[1].fix.action = SUGGEST

\* the rule the stated priority order selects for an error: the
\* replacement or suggestion text of the first rule whose keyword the
\* lower-cased message contains, or <<"comment">> when none does
ExpectedRule(error) ==
    LET has(k) == Contains(Lower(error.message), k) IN
    CASE error.type = "style" ->
           IF has(<<"o", "p", "t", "i", "o", "n", "a", "l", " ", "c", "h", "a", "i", "n", "i", "n", "g">>) THEN Rep_optional_chaining
           ELSE IF has(<<"e", "x", "p", "o", "r", "t">>) THEN Rep_export
           ELSE IF has(<<"s", "e", "m", "i", "c", "o", "l", "o", "n">>) THEN Rep_semicolon
           ELSE <<"comment">>
      [] error.type = "bug" ->
           IF has(<<"u", "n", "d", "e", "f", "i", "n", "e", "d">>) THEN Rep_undefined
           ELSE IF has(<<"n", "u", "l", "l">>) THEN Rep_null
           ELSE IF has(<<"a", "s", "s", "i", "g", "n", "m", "e", "n", "t">>) /\ has(<<"m", "o", "d", "u", "l", "e">>) THEN Rep_module
           ELSE <<"comment">>
      [] error.type = "security" ->
           IF has(<<"i", "n", "j", "e", "c", "t", "i", "o", "n">>) THEN Rep_eval
           ELSE IF has(<<"x", "s", "s">>) THEN Rep_innerHTML
           ELSE <<"comment">>
      [] error.type = "performance" ->
           IF has(<<"l", "o", "o", "p">>)
           THEN <<"C", "o", "n", "s", "i", "d", "e", "r", " ", "u", "s", "i", "n", "g", " ", "A", "r", "r", "a", "y", ".", "m", "a", "p", "(", ")", " ", "o", "r", " ", "A", "r", "r", "a", "y", ".", "f", "i", "l", "t", "e", "r", "(", ")", " ", "f", "o", "r", " ", "b", "e", "t", "t", "e", "r", " ", "p", "e", "r", "f", "o", "r", "m", "a", "n", "c", "e">>
           ELSE IF has(<<"m", "e", "m", "o", "r", "y">>)
           THEN <<"C", "o", "n", "s", "i", "d", "e", "r", " ", "i", "m", "p", "l", "e", "m", "e", "n", "t", "i", "n", "g", " ", "o", "b", "j", "e", "c", "t", " ", "p", "o", "o", "l", "i", "n", "g", " ", "o", "r", " ", "l", "a", "z", "y", " ", "l", "o", "a", "d", "i", "n", "g">>
           ELSE <<"comment">>
      [] OTHER -> <<"comment">>

\* the rule a fix came from, read off the fix
RuleOf(f) ==
    CASE f.action = REPLACE -> f.replacement[1]
      [] f.action = SUGGEST -> f.suggestion[1]
      [] f.action = COMMENT -> <<"comment">>

\* C15: within each strategy the keyword rules are tested in the stated
\* priority order on the lower-cased message and the first match wins;
\* when no rule matches the fix is a comment at the error's line that
\* embeds the original message.
C15_FirstMatchingRuleWins ==
    Generated =>
        \A i \in DOMAIN fixes :
            /\ RuleOf(fixes[i].fix) = ExpectedRule(errors[i])
            /\ ExpectedRule(errors[i]) = <<"comment">> =>
                  /\ fixes[i].fix.action = COMMENT
                  /\ fixes[i].fix.line = Some(errors[i].line)
                  /\ Contains(fixes[i].fix.comment[1], errors[i].message)

C15_Witness ==
    /\ Generated
    /\ Len(fixes) = 1
    /\ errors[1].type = "bug"
    /\ Contains(Lower(errors[1].message), <<"u", "n", "d", "e", "f", "i", "n", "e", "d">>)
    /\ Contains(Lower(errors[1].message), <<"n", "u", "l", "l">>)
    /\ fixes[1].fix.replacement = Some(Rep_undefined)

\* C16: every GeneratedFix of generate_fixes has a confidence in [0,1]
\* (here in hundredths) and an automated flag that is true unless the fix's
\* action is Suggest, in which case it is false.
C16_AutomatedUnlessSuggest ==
    Generated =>
        \A i \in DOMAIN fixes :
            /\ fixes[i].confidence \in 0..100
            /\ fixes[i].automated <=> fixes[i].fix.action /= SUGGEST

\* C17: the Replace edits that rewrite around a matched identifier keep the
\* identifier when apply_fixes applies them: "x == null" becomes
\* "x === null" and "a.b" becomes "a?.b", and no patched text holds the
\* group reference "$1" in place of the identifier.
C17_ReplaceKeepsIdentifier ==
    (Applied /\ Len(fixes) = 1 /\ fixes[1].fix.action = REPLACE) =>
        /\ (fixes[1].fix.replacement = Some(Rep_null) /\ code = <<"x", " ", "=", "=", " ", "n", "u", "l", "l">>) =>
              fixed_code = <<"x", " ", "=", "=", "=", " ", "n", "u", "l", "l">>
        /\ (fixes[1].fix.replacement = Some(Rep_undefined) /\ code = <<"a", ".", "b">>) =>
              fixed_code = <<"a", "?", ".", "b">>
        /\ ~Contains(fixed_code, <<"$", "1">>)

\* an except clause of an endpoint has caught an exception that is not an
\* HTTPException: an unexpected internal error
CaughtInternalError == caught /= None /\ caught[1].class /= "HTTPException"

\* C19: with settings.debug false, the response to an error caught while
\* handling a request never carries the text of the caught exception.
C19_ProductionHidesExceptionText ==
    (~debug /\ Sent /\ CaughtInternalError) =>
        ~Contains(response[1].content.error, ExcText(caught[1]))

IsSuggestFix == request.caller = "suggest_fix"

\* a query of the usage store raised inside get_api_usage or
\* increment_api_usage
StoreFailed == Entered("store_error")

\* C20: once a query of the usage store has failed during suggest_fix, no
\* exception reaches the endpoint's except clauses or the caller, the
\* request goes on to the AI service, and the response that is sent is the
\* service's BlackboxResponse with status 200.
C20_StoreFailureIsAbsorbed ==
    (IsSuggestFix /\ StoreFailed) =>
        /\ exc = None
        /\ pc \in {"sf_check", "sf_increment", "sf_ai", "done"}
        /\ pc = "done" =>
              /\ Entered("blackbox_service.suggest_fix")
              /\ response[1].status_code = 200
              /\ response[1].content \in BlackboxResponses

\* the user's row is at the limit, the read of it failed, and the request
\* was answered by the AI service all the same
C20_Witness ==
    /\ IsSuggestFix
    /\ request.rows = <<max_requests_per_user>>
    /\ calls = <<"get_api_usage", "store_error", "increment_api_usage",
                 "store_error", "blackbox_service.suggest_fix">>
    /\ Sent
    /\ response[1].status_code = 200

(* ------------------------------------------------------------------ *)
(* apply_fixes: order, skipped fixes, frame                            *)
(* ------------------------------------------------------------------ *)

\* the line key the description of apply_fixes gives a fix: the target
\* line of a comment fix, the line of the originating error (error_id) of
\* a Replace or Suggest fix
DescribedKey(f) == IF f.fix.action = COMMENT THEN f.fix.line[1] ELSE f.error_id

\* C21: apply_fixes processes the fixes in descending order of the key that
\* is the target line of a comment fix and the line of the originating
\* error of a Replace or Suggest fix.
C21_DescendingByErrorLine ==
    Applied =>
        LET s == sorted_fixes(fixes) IN
        \A i, j \in DOMAIN s : i < j => DescribedKey(s[i]) >= DescribedKey(s[j])

\* a Replace fix whose pattern raises re.error
Malformed(f) ==
    /\ f.fix.action = REPLACE
    /\ f.fix.pattern /= None
    /\ re_error(f.fix.pattern[1])

\* C22: when the fix list holds a Replace fix with a malformed pattern,
\* apply_fixes raises nothing and returns what it returns for the list
\* without the malformed fixes (the original text when nothing else is in
\* the list).
C22_MalformedReplaceIsSkipped ==
    (Applied /\ \E i \in DOMAIN fixes : Malformed(fixes[i])) =>
        /\ exc = None
        /\ pc \notin {"except", "raised"}
        /\ fixed_code = apply_fixes(code, SelectSeq(fixes, LAMBDA f : ~Malformed(f)))
        /\ (\A i \in DOMAIN fixes : Malformed(fixes[i])) => fixed_code = code

\* the malformed fix comes first and the Replace after it has rewritten
\* the text
C22_Witness ==
    /\ Applied
    /\ Len(fixes) = 2
    /\ Malformed(fixes[1])
    /\ fixes[2].fix.action = REPLACE
    /\ ~Malformed(fixes[2])
    /\ fixed_code /= code

\* fixes is one comment fix with a comment text
OneCommentFix ==
    /\ Len(fixes) = 1
    /\ fixes[1].fix.action = COMMENT
    /\ fixes[1].fix.line /= None
    /\ fixes[1].fix.comment /= None
    /\ fixes[1].fix.comment[1] /= <<>>

\* C23: for one comment fix with target line L and a text of n lines:
\* L > n leaves the text unchanged; 1 <= L <= n makes the comment line L,
\* after the unchanged lines 1..L-1 and before the former lines L..n.
C23_CommentBeforeTargetLine ==
    (Applied /\ OneCommentFix) =>
        LET L     == fixes[1].fix.line[1]
            lines == Split(code)
            n     == Len(lines)
        IN  /\ L > n => fixed_code = code
            /\ (1 <= L /\ L <= n) =>
                  fixed_code = Join(SubSeq(lines, 1, L - 1)
                                    \o <<fixes[1].fix.comment[1]>>
                                    \o SubSeq(lines, L, n))

\* a comment placed between the first and the second line of a text
C23_Witness ==
    /\ Applied
    /\ OneCommentFix
    /\ fixes[1].fix.line[1] = 2
    /\ LineCount(code) = 2
    /\ LineCount(fixed_code) = 3

IsSuggest(f) == f.fix.action = SUGGEST

\* C24: apply_fixes returns for a fix list what it returns for the list
\* with the Suggest fixes removed, and the original text for a list of
\* Suggest fixes only.
C24_SuggestLeavesTextAlone ==
    Applied =>
        /\ fixed_code = apply_fixes(code, SelectSeq(fixes, LAMBDA f : ~IsSuggest(f)))
        /\ (\A i \in DOMAIN fixes : IsSuggest(fixes[i])) => fixed_code = code

\* a Suggest fix beside a fix that changed the text
C24_Witness ==
    /\ Applied
    /\ Len(fixes) = 2
    /\ IsSuggest(fixes[1])
    /\ ~IsSuggest(fixes[2])
    /\ fixed_code /= code

\* every fix is a comment fix whose comment has no line break
SingleLineComments(fs) ==
    \A i \in DOMAIN fs :
        /\ fs[i].fix.action = COMMENT
        /\ fs[i].fix.line /= None
        /\ fs[i].fix.comment /= None
        /\ fs[i].fix.comment[1] /= <<>>
        /\ ~Contains(fs[i].fix.comment[1], <<NL>>)

\* C28: for a list of comment fixes with single-line comments the result
\* has the original line count plus the number of fixes whose target line
\* is between 1 and the original line count.
C28_InsertedIffInOriginalRange ==
    (Applied /\ SingleLineComments(fixes)) =>
        LET n == LineCount(code) IN
        LineCount(fixed_code) =
            n + Cardinality({ i \in DOMAIN fixes :
                                1 <= fixes[i].fix.line[1] /\ fixes[i].fix.line[1] <= n })

\* the comments of the fixes of fs that target line L, last fix first
RECURSIVE CommentsFor(_, _)
CommentsFor(fs, L) ==
    IF fs = <<>> THEN <<>>
    ELSE CommentsFor(Tail(fs), L)
         \o (IF Head(fs).fix.line[1] = L THEN <<Head(fs).fix.comment[1]>> ELSE <<>>)

\* lines[L..n], each line after the comments that target it
RECURSIVE Annotated(_, _, _)
Annotated(lines, fs, L) ==
    IF L > Len(lines) THEN <<>>
    ELSE CommentsFor(fs, L) \o <<lines[L]>> \o Annotated(lines, fs, L + 1)

\* C29: for a list of single-line comment fixes with target lines between
\* 1 and the line count, every comment stands directly before the original
\* line it targets, and the comments of one line stand in the reverse of
\* their order in the fix list.
C29_SameLineCommentsReversed ==
    (/\ Applied
     /\ SingleLineComments(fixes)
     /\ \A i \in DOMAIN fixes :
           1 <= fixes[i].fix.line[1] /\ fixes[i].fix.line[1] <= LineCount(code)) =>
        Split(fixed_code) = Annotated(Split(code), fixes, 1)

\* two different comments for the same line
C29_Witness ==
    /\ Applied
    /\ Len(fixes) = 2
    /\ SingleLineComments(fixes)
    /\ fixes[1].fix.line = fixes[2].fix.line
    /\ fixes[1].fix.comment /= fixes[2].fix.comment
    /\ fixes[1].fix.line[1] \in 1..LineCount(code)

(* ------------------------------------------------------------------ *)
(* fallback comments and the validation                                *)
(* ------------------------------------------------------------------ *)

\* f is the fallback comment of the style, bug or security strategy and
\* apply_fixes inserts it: its line is not 0 and not beyond the line count
InsertedMarkedFallback(f) ==
    /\ f.type \in {"style", "bug", "security"}
    /\ f.fix.action = COMMENT
    /\ f.fix.line[1] /= 0
    /\ f.fix.line[1] <= LineCount(code)

\* C30: when apply_fixes has inserted the fallback comment of an error of
\* kind style, bug or security, run_tests of the patched text fails, the
\* gate of code_fix_agent is closed for that result and no pull request
\* is created.
C30_MarkedFallbackBlocksPr ==
    (Generated /\ Tested /\ \E i \in DOMAIN fixes : InsertedMarkedFallback(fixes[i])) =>
        /\ ~Clean(fixed_code)
        /\ ~test_results[1].success
        /\ ~pr_gate(test_results[1])
        /\ pr_url = None
        /\ ~Entered("create_pull_request")

\* the text was clean and the style fallback comment is what fails it
C30_Witness ==
    /\ Generated
    /\ Tested
    /\ Len(fixes) = 1
    /\ fixes[1].type = "style"
    /\ InsertedMarkedFallback(fixes[1])
    /\ Clean(code)
    /\ ~test_results[1].success

(* ------------------------------------------------------------------ *)
(* the usage limit of the rate-limited endpoints                       *)
(* ------------------------------------------------------------------ *)

IsRateLimited == request.caller \in RateLimitedEndpoints

\* the request passes the endpoint's validation of text and user
ValidRequest == request.code[1] /= <<>> /\ request.user_id /= ""

\* the request was rejected with 429 and has neither counted itself nor
\* reached the call after the count
RejectedUncounted ==
    /\ response[1].status_code = 429
    /\ store = request.rows
    /\ ~Entered("increment_api_usage")
    /\ ~Entered(AiCall(request.caller))

\* C25: in every rate-limited endpoint a valid request of a user whose
\* stored count is at or above max_requests_per_user is answered with 429,
\* without incrementing the count and without calling the AI service.
C25_AtLimitIsRejected ==
    (/\ IsRateLimited
     /\ ValidRequest
     /\ Len(request.rows) = 1
     /\ request.rows[1] >= max_requests_per_user
     /\ Sent) => RejectedUncounted

\* C25 as amended: a request whose read of the usage succeeded with a
\* count at or above max_requests_per_user raises 429 at the limit test and
\* is answered with 429, without incrementing the count and without
\* calling the AI service.
C25_ReadAtLimitIsRejected ==
    (/\ IsRateLimited
     /\ usage /= None
     /\ usage[1].count >= max_requests_per_user
     /\ pc /= "sf_check") =>
        /\ exc = Some(HTTPException(429, <<"API request limit reached">>))
        /\ pc \in {"sf_except", "raised", "done"}
        /\ Sent => RejectedUncounted

\* ui_generation_agent has rejected a user at the limit
C25_Witness ==
    /\ request.caller = "ui_generation_agent"
    /\ usage = Some([count |-> max_requests_per_user])
    /\ Sent
    /\ RejectedUncounted

(* ------------------------------------------------------------------ *)
(* the usage count under requests in flight together                   *)
(* ------------------------------------------------------------------ *)

\* the requests that have passed the limit test
Passed == { r \in Requests : pc[r] \in {"sf_increment", "sf_increment_write", "sf_ai"}
                             \/ (pc[r] = "done" /\ response[r][1].status_code = 200) }

\* the requests whose increment_api_usage has written
Counted == { r \in Requests : pc[r] = "sf_ai"
                              \/ (pc[r] = "done" /\ response[r][1].status_code = 200) }

\* C26: with a store that does not fail and the requests of one user
\* interleaved at the store operations, the requests let through the limit
\* test, added to the count the user started with, never exceed
\* max_requests_per_user, and the stored count is the count the user
\* started with plus one for every request that has written its increment.
C26_NoOveradmissionNoLostUpdate ==
    /\ request.rows[1] + Cardinality(Passed) <= max_requests_per_user
    /\ store[1] = request.rows[1] + Cardinality(Counted)

\* C27: the stored count of a user never decreases, and once it is at or
\* above max_requests_per_user it stays there.
C27_CountNeverDecreases ==
    [][/\ store'[1] >= store[1]
       /\ store[1] >= max_requests_per_user => store'[1] >= max_requests_per_user]_vars

====

